---- MODULE Spec2Model ----
(***************************************************************************)
(* ukis_sat2h5: packing of georeferenced image/label rasters into an HDF5  *)
(* store (conversion.convert_img_to_h5), tiling of a store                 *)
(* (tiling.tile_img_h5), reconstruction of rasters from a store            *)
(* (conversion.convert_h5_to_img) and the command line (__main__.main).    *)
(*                                                                         *)
(* Conventions of the model                                                *)
(*  - arrays are 1-based sequences: a raster's data is                     *)
(*    data[band][row][col]; the code's 0-based offsets are shifted by one  *)
(*    where an array is indexed and nowhere else;                          *)
(*  - a geotransform is the 6-tuple in GDAL order                          *)
(*    <<x0, a, b, y0, d, e>>; its terms are integers, so the arithmetic of *)
(*    the model is exact where the code's is floating point;               *)
(*  - pixel values of source rasters lie in the unsigned 16-bit range, the *)
(*    dtype the packer declares for /img and /lbl;                         *)
(*  - a file name is the stem of the file (no directory, no suffix).       *)
(***************************************************************************)
EXTENDS Integers, Sequences, FiniteSets, TLC

VARIABLES
    tree,   \* the source folder: a sequence of directories, each a sequence of files
    h5,     \* the HDF5 files by name: NoFile, or a function dataset name -> dataset
    out,    \* the reconstruction folder: file name -> written raster (or absent)
    conv,   \* the running convert_img_to_h5 call
    tile,   \* the running tile_img_h5 call
    rec,    \* the running convert_h5_to_img call and its worker tasks
    cli     \* the running main() call

vars == <<tree, h5, out, conv, tile, rec, cli>>

(***************************************************************************)
(* Bounds of the model.                                                    *)
(***************************************************************************)
MaxSide == 3       \* largest height and width of a source raster
MaxBands == 2      \* largest band count of a source raster
MaxItems == 2      \* largest number of image directories in the source folder
MaxTarget == 4     \* largest target_size, tile_size and overlap of a tiling call

(***************************************************************************)
(* Small helpers on sequences and sets.                                    *)
(***************************************************************************)
Range(s) == {s[i] : i \in DOMAIN s}

RECURSIVE SetMax(_)
SetMax(S) == IF Cardinality(S) = 1 THEN CHOOSE x \in S : TRUE
             ELSE LET x == CHOOSE y \in S : TRUE
                      m == SetMax(S \ {x})
                  IN IF x > m THEN x ELSE m

RECURSIVE SetMin(_)
SetMin(S) == IF Cardinality(S) = 1 THEN CHOOSE x \in S : TRUE
             ELSE LET x == CHOOSE y \in S : TRUE
                      m == SetMin(S \ {x})
                  IN IF x < m THEN x ELSE m

RECURSIVE Flatten(_)
Flatten(ss) == IF ss = <<>> THEN <<>> ELSE Head(ss) \o Flatten(Tail(ss))

None == "None"

(***************************************************************************)
(* Source rasters.  A raster file carries what rasterio exposes: width,    *)
(* height, band count, EPSG code, geotransform and the band arrays.        *)
(***************************************************************************)
Pix(key, b, r, c) == (key * 32756 + (b - 1) * 1009 + r * 10 + c) % 65536

LblPix(key, r, c) == (key + r + c) % 4

EpsgOf(key) == IF key % 2 = 0 THEN 32601 ELSE 4326

AffineOf(key) == IF key % 2 = 0 THEN <<0, 10, 0, 0, 0, -10>>
                 ELSE <<500, 10, 2, 900, 3, -10>>

ImageRaster(key, h, w, n) ==
    [width |-> w, height |-> h, count |-> n,
     epsg |-> EpsgOf(key), affine |-> AffineOf(key),
     data |-> [b \in 1..n |-> [r \in 1..h |-> [c \in 1..w |-> Pix(key, b, r, c)]]]]

LabelRaster(key, h, w) ==
    [width |-> w, height |-> h, count |-> 1,
     epsg |-> EpsgOf(key), affine |-> AffineOf(key),
     data |-> [b \in 1..1 |-> [r \in 1..h |-> [c \in 1..w |-> LblPix(key, r, c)]]]]

(***************************************************************************)
(* A file of the source folder: its stem, whether file_glob matches its    *)
(* name (found), whether the label pattern (label_glob) matches it         *)
(* (label), and the raster it holds.  A directory is the sequence of its   *)
(* files in the order the glob returns them.  The kinds of label of a      *)
(* directory: "label" (a label.tif the pattern matches), "mask" (a file of *)
(* another name the pattern matches), "both" (such a file next to a        *)
(* label.tif that neither pattern matches), "none".                        *)
(***************************************************************************)
LabelKinds == {"label", "mask", "both", "none"}

Directory(key, stem, h, w, n, lblkind) ==
    <<[name |-> stem, found |-> TRUE, label |-> FALSE, ras |-> ImageRaster(key, h, w, n)]>>
    \o (IF lblkind = "none" THEN <<>>
        ELSE <<[name |-> IF lblkind = "both" THEN "mask" ELSE lblkind,
                found |-> TRUE, label |-> TRUE, ras |-> LabelRaster(key, h, w)]>>)
    \o (IF lblkind = "both"
        THEN <<[name |-> "label", found |-> FALSE, label |-> FALSE,
                ras |-> LabelRaster(key + 2, h, w)]>>
        ELSE <<>>)

Digit(d) == CASE d = 0 -> "0" [] d = 1 -> "1" [] d = 2 -> "2" [] d = 3 -> "3"
              [] d = 4 -> "4" [] d = 5 -> "5" [] d = 6 -> "6" [] d = 7 -> "7"
              [] d = 8 -> "8" [] d = 9 -> "9"

BaseStem(i) == "im" \o Digit(i)

\* A source folder of n directories: n-1 uniform ones (square rasters of side s,
\* MaxBands bands, a label.tif) and a last one that may deviate in every respect.
TreeOf(n, s, oh, ow, on, ostem, olbl) ==
    [i \in 1..n |->
        IF i < n THEN Directory(i - 1, BaseStem(i), s, s, MaxBands, "label")
        ELSE Directory(n - 1, ostem, oh, ow, on, olbl)]

Sides == 1..MaxSide

Trees(stems, lblkinds) ==
    {TreeOf(n, s, oh, ow, on, ostem, olbl) :
        n \in 1..MaxItems, s \in Sides, oh \in Sides, ow \in Sides,
        on \in 1..MaxBands, ostem \in stems, olbl \in lblkinds}

(***************************************************************************)
(* convert_img_to_h5: discovery of images and labels.                      *)
(***************************************************************************)
\* A path is <<directory index, file index>>.
FileAt(t, p) == t[p[1]][p[2]]

FilesIn(t, d) == [f \in 1..Len(t[d]) |-> <<d, f>>]

IsImagePath(t, p) == FileAt(t, p).found /\ ~FileAt(t, p).label

IsLabelPath(t, p) == FileAt(t, p).label

\* l_images: every file found by the recursive glob that the label pattern does not match
l_images(t) ==
    Flatten([d \in 1..Len(t) |-> SelectSeq(FilesIn(t, d), LAMBDA p : IsImagePath(t, p))])

\* l_labels: for every image, every file of the image's directory the label pattern matches
l_labels(t) ==
    LET imgs == l_images(t)
    IN Flatten([k \in 1..Len(imgs) |->
                  SelectSeq(FilesIn(t, imgs[k][1]), LAMBDA p : IsLabelPath(t, p))])

\* _derive_metadata: (width, height, epsg, affine, bands) of one image
_derive_metadata(t, p) ==
    LET src == FileAt(t, p).ras
    IN [width |-> src.width, height |-> src.height, epsg |-> src.epsg,
        affine |-> src.affine, bands |-> src.count]

\* pool.imap keeps the order of l_images
metadata(t) == [k \in 1..Len(l_images(t)) |-> _derive_metadata(t, l_images(t)[k])]

widths(t) == {metadata(t)[k].width : k \in 1..Len(l_images(t))}
heights(t) == {metadata(t)[k].height : k \in 1..Len(l_images(t))}
bandcounts(t) == {metadata(t)[k].bands : k \in 1..Len(l_images(t))}

\* _IMG_SIDE_RATIO_WRNG_THRS = 0.5 as the fraction <<numerator, denominator>>
IMG_SIDE_RATIO_WRNG_THRS == <<1, 2>>

\* the comparison with <= in place of <
RatioBelowThreshold_Inclusive(xs) ==
    SetMin(xs) * IMG_SIDE_RATIO_WRNG_THRS[2] <= IMG_SIDE_RATIO_WRNG_THRS[1] * SetMax(xs)

\* min(xs) / max(xs) < _IMG_SIDE_RATIO_WRNG_THRS
RatioBelowThreshold(xs) ==
    SetMin(xs) * IMG_SIDE_RATIO_WRNG_THRS[2] < IMG_SIDE_RATIO_WRNG_THRS[1] * SetMax(xs)

SizeWarning(t) == RatioBelowThreshold(widths(t)) \/ RatioBelowThreshold(heights(t))

(***************************************************************************)
(* HDF5 files.  h5[name] says whether the file exists and holds its        *)
(* datasets, a function from dataset names to datasets (called `file`      *)
(* below); a dataset has a shape, a dtype and its data, a sequence over    *)
(* the leading axis.  A dtype is a tuple; a string dtype is <<"S", n>>:    *)
(* n bytes per entry.                                                      *)
(***************************************************************************)
EmptyFile == [n \in {} |-> None]

NoFile == [exists |-> FALSE, ds |-> EmptyFile]

\* h5py.File(name, mode="a") creates the file when there is none
Opened(file) == [exists |-> TRUE, ds |-> file]

\* chunks: the leading chunk length given to create_dataset, 0 when the caller
\* leaves the chunking to dask and h5py
Dataset(shape, dtype, data) ==
    [shape |-> shape, dtype |-> dtype, data |-> data, chunks |-> 0]

WithDataset(file, name, ds) ==
    [n \in DOMAIN file \cup {name} |-> IF n = name THEN ds ELSE file[n]]

\* the value of a freshly created dataset: the fill value 0 (the empty string)
RECURSIVE Zeros(_, _)
Zeros(shape, dtype) ==
    IF shape = <<>> THEN (IF dtype[1] = "S" THEN "" ELSE 0)
    ELSE [i \in 1..Head(shape) |-> Zeros(Tail(shape), dtype)]

\* numpy.can_cast(new, old) for the dtypes the program writes
CanCast(new, old) ==
    IF new[1] = "S" /\ old[1] = "S" THEN new[2] <= old[2] ELSE new = old

\* h5py Group.require_dataset: the existing dataset when its shape matches and the
\* dtype can be cast, a new zero-filled dataset when there is none, TypeError otherwise
RequireOk(file, name, shape, dtype) ==
    name \in DOMAIN file => (file[name].shape = shape /\ CanCast(dtype, file[name].dtype))

RequireDataset(file, name, shape, dtype) ==
    IF name \in DOMAIN file THEN file
    ELSE WithDataset(file, name, Dataset(shape, dtype, Zeros(shape, dtype)))

\* dask.array.to_hdf5 requires the datasets one after the other, in the order given;
\* the first failure ends it. wanted: a sequence of <<name, shape, dtype>>
RECURSIVE RequireAll(_, _)
RequireAll(file, wanted) ==
    IF wanted = <<>> THEN [file |-> file, ok |-> TRUE]
    ELSE LET w == Head(wanted)
         IN IF RequireOk(file, w[1], w[2], w[3])
            THEN RequireAll(RequireDataset(file, w[1], w[2], w[3]), Tail(wanted))
            ELSE [file |-> file, ok |-> FALSE]

\* h5py Group.create_dataset fails with ValueError when the name exists
CreateOk(file, name) == name \notin DOMAIN file

\* numpy writes a string into a fixed-length entry cut to the entry's length
FitString(str, n) == IF Len(str) <= n THEN str ELSE SubSeq(str, 1, n)

SetRow(ds, i, row) == [ds EXCEPT !.data = [ds.data EXCEPT ![i] = row]]

(***************************************************************************)
(* convert_img_to_h5: band selection, loading and padding.                 *)
(***************************************************************************)
\* `if image_bands:` : None and the empty list select every band
NoBands == [given |-> FALSE, list |-> <<>>]

Bands(list) == [given |-> TRUE, list |-> list]

ExplicitBands(image_bands) == image_bands.given /\ image_bands.list # <<>>

SeqMax(s) == SetMax(Range(s))

\* the validations without the assertion that all images have the same band count
ValidationError_NoBandCountCheck(t, image_bands) ==
    IF Len(l_images(t)) # Len(l_labels(t)) THEN "CountMismatch"
    ELSE IF Len(l_images(t)) = 0 THEN "NoImages"
    ELSE IF ExplicitBands(image_bands) /\ ~(SetMax(bandcounts(t)) >= SeqMax(image_bands.list))
         THEN "BandIndexTooHigh"
    ELSE None

\* the first validation that fails, or None (conversion.py 52-80, and the zip of an
\* empty metadata list)
ValidationError(t, image_bands) ==
    IF Len(l_images(t)) # Len(l_labels(t)) THEN "CountMismatch"
    ELSE IF Len(l_images(t)) = 0 THEN "NoImages"
    ELSE IF ExplicitBands(image_bands) /\ Cardinality(bandcounts(t)) # 1
         THEN "BandCountMismatch"
    ELSE IF ExplicitBands(image_bands) /\ ~(SetMax(bandcounts(t)) >= SeqMax(image_bands.list))
         THEN "BandIndexTooHigh"
    ELSE None

\* the warning is emitted after the probe and before the band check
WarningReached(t) == Len(l_images(t)) = Len(l_labels(t)) /\ Len(l_images(t)) > 0

SelectedBands(t, image_bands) ==
    IF ExplicitBands(image_bands) THEN image_bands.list
    ELSE [b \in 1..SetMax(bandcounts(t)) |-> b]

max_width(t) == SetMax(widths(t))
max_height(t) == SetMax(heights(t))

\* the pad put before the array, pad_width ((pad, 0), (pad, 0)), in place of after it
Pad2_Before(a, h, w, pad_height, pad_width) ==
    [r \in 1..(h + pad_height) |->
        [c \in 1..(w + pad_width) |->
            IF r > pad_height /\ c > pad_width THEN a[r - pad_height][c - pad_width]
            ELSE 0]]

\* numpy/dask pad of a 2-D array at the bottom and the right with the constant 0
Pad2(a, h, w, pad_height, pad_width) ==
    [r \in 1..(h + pad_height) |->
        [c \in 1..(w + pad_width) |-> IF r <= h /\ c <= w THEN a[r][c] ELSE 0]]

\* rasterio read(bands) fails on a band index the file does not have
ReadOk(ras, bands) == \A k \in DOMAIN bands : bands[k] \in 1..ras.count

\* a pad width must not be negative
PadOk(ras, mw, mh) == mh - ras.height >= 0 /\ mw - ras.width >= 0

_load_img_ok(t, p, mw, mh, bands) ==
    ReadOk(FileAt(t, p).ras, bands) /\ PadOk(FileAt(t, p).ras, mw, mh)

_load_img(t, p, mw, mh, bands) ==
    LET src_img == FileAt(t, p).ras
        pad_height_img == mh - src_img.height
        pad_width_img == mw - src_img.width
    IN [k \in DOMAIN bands |->
           Pad2(src_img.data[bands[k]], src_img.height, src_img.width,
                pad_height_img, pad_width_img)]

\* _load_lbl opens "label.tif" in the directory of the path it is given
LabelTifIn(t, d) == {f \in 1..Len(t[d]) : t[d][f].name = "label"}

_load_lbl_ok(t, p, mw, mh) ==
    /\ LabelTifIn(t, p[1]) # {}
    /\ PadOk(t[p[1]][CHOOSE f \in LabelTifIn(t, p[1]) : TRUE].ras, mw, mh)

\* the label band as it is read, without the pad
_load_lbl_NoPad(t, p, mw, mh) ==
    t[p[1]][CHOOSE f \in LabelTifIn(t, p[1]) : TRUE].ras.data[1]

_load_lbl(t, p, mw, mh) ==
    LET src_lbl == t[p[1]][CHOOSE f \in LabelTifIn(t, p[1]) : TRUE].ras
        pad_height_lbl == mh - src_lbl.height
        pad_width_lbl == mw - src_lbl.width
    IN Pad2(src_lbl.data[1], src_lbl.height, src_lbl.width, pad_height_lbl, pad_width_lbl)

\* shortened_paths: the stems of the images
shortened_paths(t) == [k \in 1..Len(l_images(t)) |-> FileAt(t, l_images(t)[k]).name]

max_str_len(t) == SetMax({Len(shortened_paths(t)[k]) : k \in 1..Len(l_images(t))})

\* the datasets to_hdf5 requires, in the order of the dictionary
ConvDatasets(t, image_bands) ==
    LET n == Len(l_images(t))
        c == Len(SelectedBands(t, image_bands))
    IN << <<"img", <<n, c, max_height(t), max_width(t)>>, <<"uint16">> >>,
          <<"lbl", <<n, max_height(t), max_width(t)>>, <<"uint16">> >>,
          <<"path", <<n>>, <<"S", max_str_len(t)>> >>,
          <<"epsg", <<n>>, <<"int64">> >>,
          <<"affine", <<n, 6>>, <<"float64">> >> >>

(***************************************************************************)
(* _compute_statistics: one mean and one standard deviation per band, over *)
(* the item axis and both spatial axes.  A mean is kept exact, as          *)
(* [num, den]; a standard deviation is kept as the values it is taken of.  *)
(***************************************************************************)
RECURSIVE SumSeq(_)
SumSeq(s) == IF s = <<>> THEN 0 ELSE Head(s) + SumSeq(Tail(s))

\* the values of band b of a 4-D array [N][C][H][W], in axis order
BandValues(arr, b) ==
    Flatten([i \in 1..Len(arr) |-> Flatten(arr[i][b])])

BandCount(arr) == IF Len(arr) = 0 THEN 0 ELSE Len(arr[1])

means(arr) ==
    [b \in 1..BandCount(arr) |->
        [num |-> SumSeq(BandValues(arr, b)), den |-> Len(BandValues(arr, b))]]

stds(arr) == [b \in 1..BandCount(arr) |-> [std_of |-> BandValues(arr, b)]]

\* the two create_dataset calls, in order; the first name that exists ends them
_compute_statistics(file) ==
    LET arr == file["img"].data
        c == BandCount(arr)
        f1 == WithDataset(file, "img_means", Dataset(<<c>>, <<"float64">>, means(arr)))
        f2 == WithDataset(f1, "img_stds", Dataset(<<c>>, <<"float64">>, stds(arr)))
    IN IF ~CreateOk(file, "img_means") THEN [file |-> file, ok |-> FALSE]
       ELSE IF ~CreateOk(f1, "img_stds") THEN [file |-> f1, ok |-> FALSE]
       ELSE [file |-> f2, ok |-> TRUE]

(***************************************************************************)
(* State of the calls.                                                     *)
(***************************************************************************)
H5Names == {"a.h5", "t.h5"}

\* dst0: what was at the destination when the call was made
ConvIdle == [pc |-> "idle", dst |-> None, image_bands |-> NoBands, warned |-> FALSE,
             err |-> None, todo |-> {}, via |-> None, dst0 |-> NoFile]

\* the program is sequential at the level of calls: one operation at a time
ConvRunning == conv.pc \in {"to_hdf5", "store"}

(***************************************************************************)
(* convert_img_to_h5.                                                      *)
(*   ConvCall   lines 43-112: discovery, count check, metadata probe, size  *)
(*              warning, band check; the arrays built here are lazy        *)
(*   ConvOpen   da.to_hdf5: the file is opened in append mode and the five *)
(*              datasets are required                                      *)
(*   ConvStore* da.to_hdf5: the store tasks, in any order                  *)
(*   ConvStats  _compute_statistics, after to_hdf5 has returned            *)
(***************************************************************************)
ConvCallResult(t, dst, image_bands, via) ==
    LET e == ValidationError(t, image_bands)
    IN [pc |-> IF e = None THEN "to_hdf5" ELSE "failed",
        dst |-> dst, image_bands |-> image_bands,
        warned |-> WarningReached(t) /\ SizeWarning(t),
        err |-> e, todo |-> {}, via |-> via, dst0 |-> h5[dst]]

ConvOpen ==
    /\ conv.pc = "to_hdf5"
    /\ LET r == RequireAll(h5[conv.dst].ds, ConvDatasets(tree, conv.image_bands))
       IN /\ h5' = [h5 EXCEPT ![conv.dst] = Opened(r.file)]
          /\ conv' = IF r.ok
                     THEN [conv EXCEPT !.pc = "store", !.todo = 0..Len(l_images(tree))]
                     ELSE [conv EXCEPT !.pc = "failed", !.err = "TypeError"]
    /\ UNCHANGED <<tree, out, tile, rec, cli>>

\* the task that stores /path, /epsg and /affine
StoredMeta(t, file) ==
    LET n == Len(l_images(t))
        f1 == [file EXCEPT !["path"].data =
                  [k \in 1..n |-> FitString(shortened_paths(t)[k], file["path"].dtype[2])]]
        f2 == [f1 EXCEPT !["epsg"].data = [k \in 1..n |-> metadata(t)[k].epsg]]
    IN [f2 EXCEPT !["affine"].data = [k \in 1..n |-> metadata(t)[k].affine]]

ConvStoreMeta ==
    /\ conv.pc = "store"
    /\ 0 \in conv.todo
    /\ h5' = [h5 EXCEPT ![conv.dst].ds = StoredMeta(tree, @)]
    /\ conv' = [conv EXCEPT !.todo = conv.todo \ {0}]
    /\ UNCHANGED <<tree, out, tile, rec, cli>>

RowImage(t, i, image_bands) ==
    _load_img(t, l_images(t)[i], max_width(t), max_height(t), SelectedBands(t, image_bands))

RowImageOk(t, i, image_bands) ==
    _load_img_ok(t, l_images(t)[i], max_width(t), max_height(t),
                 SelectedBands(t, image_bands))

RowLabel(t, i) == _load_lbl(t, l_labels(t)[i], max_width(t), max_height(t))

RowLabelOk(t, i) == _load_lbl_ok(t, l_labels(t)[i], max_width(t), max_height(t))

\* the tasks that load item i and store row i of /img and /lbl
ConvStoreRow(i) ==
    /\ conv.pc = "store"
    /\ i \in conv.todo \ {0}
    /\ RowImageOk(tree, i, conv.image_bands)
    /\ RowLabelOk(tree, i)
    /\ h5' = [h5 EXCEPT ![conv.dst].ds =
                 [@ EXCEPT !["img"] = SetRow(@, i, RowImage(tree, i, conv.image_bands)),
                           !["lbl"] = SetRow(@, i, RowLabel(tree, i))]]
    /\ conv' = [conv EXCEPT !.todo = conv.todo \ {i}]
    /\ UNCHANGED <<tree, out, tile, rec, cli>>

\* a load of item i raises: to_hdf5 ends with the error; the image row of the
\* item is stored when its load succeeded before the label's failed
ConvStoreFail(i) ==
    /\ conv.pc = "store"
    /\ i \in conv.todo \ {0}
    /\ ~(RowImageOk(tree, i, conv.image_bands) /\ RowLabelOk(tree, i))
    /\ \E stored \in BOOLEAN :
          /\ stored => RowImageOk(tree, i, conv.image_bands)
          /\ h5' = IF stored
                   THEN [h5 EXCEPT ![conv.dst].ds =
                           [@ EXCEPT !["img"] =
                               SetRow(@, i, RowImage(tree, i, conv.image_bands))]]
                   ELSE h5
    /\ conv' = [conv EXCEPT !.pc = "failed", !.err = "ReadError"]
    /\ UNCHANGED <<tree, out, tile, rec, cli>>

\* the reduction started without waiting for the store tasks
ConvStats_NoBarrier ==
    /\ conv.pc = "store"
    /\ LET r == _compute_statistics(h5[conv.dst].ds)
       IN /\ h5' = [h5 EXCEPT ![conv.dst] = Opened(r.file)]
          /\ conv' = IF r.ok THEN [conv EXCEPT !.pc = "done"]
                     ELSE [conv EXCEPT !.pc = "failed", !.err = "ValueError"]
    /\ UNCHANGED <<tree, out, tile, rec, cli>>

ConvStats ==
    /\ conv.pc = "store"
    /\ conv.todo = {}
    /\ LET r == _compute_statistics(h5[conv.dst].ds)
       IN /\ h5' = [h5 EXCEPT ![conv.dst] = Opened(r.file)]
          /\ conv' = IF r.ok THEN [conv EXCEPT !.pc = "done"]
                     ELSE [conv EXCEPT !.pc = "failed", !.err = "ValueError"]
    /\ UNCHANGED <<tree, out, tile, rec, cli>>

(***************************************************************************)
(* Integer casts (numpy astype between 16-bit integer types wraps).        *)
(***************************************************************************)
ToUint16(v) == v % 65536

\* a cast that saturates at the int16 bounds in place of wrapping
ToInt16_Clip(v) == IF v > 32767 THEN 32767 ELSE IF v < -32768 THEN -32768 ELSE v

ToInt16(v) == IF v % 65536 >= 32768 THEN (v % 65536) - 65536 ELSE v % 65536

Cast2(a, F(_)) == [r \in DOMAIN a |-> [c \in DOMAIN a[r] |-> F(a[r][c])]]

Cast3(a, F(_)) == [b \in DOMAIN a |-> Cast2(a[b], F)]

(***************************************************************************)
(* convert_h5_to_img and _create_raster.                                   *)
(*   RecCall       lines 144-153: the destination folder, the index list   *)
(*   RecTaskImage  _create_raster 173-192: the row is read and the image   *)
(*                 raster written                                          *)
(*   RecTaskLabel  _create_raster 194-198: the label raster is written     *)
(*   RecFinish     every task has returned                                 *)
(* With an index list the tasks run in a process pool (imap_unordered) and *)
(* interleave; a single integer index runs the one task in the caller.     *)
(***************************************************************************)
\* the index argument: None, one integer, or a list of integers
NoIndex == [kind |-> "none", list |-> <<>>]

IntIndex(i) == [kind |-> "int", list |-> <<i>>]

ListIndex(list) == [kind |-> "list", list |-> list]

RecIdle == [pc |-> "idle", src |-> None, index |-> NoIndex, index_list |-> <<>>,
            tasks |-> <<>>, err |-> None]

RecRunning == rec.pc = "running"

RowDatasets == {"img", "lbl", "path", "epsg", "affine"}

\* reading row `index` (0-based) of the five datasets succeeds
RowReadable(file, index) ==
    /\ RowDatasets \subseteq DOMAIN file
    /\ \A n \in RowDatasets : index + 1 \in 1..Len(file[n].data)

\* the file name of a row: path.decode('UTF-8')
RowName(file, index) == file["path"].data[index + 1]

_label_name(name) == name \o "_label"

\* the metadata dictionary and the array of the image raster
ImageOut(file, index) ==
    LET img == file["img"].data[index + 1]
    IN [count |-> Len(img), height |-> Len(img[1]), width |-> Len(img[1][1]),
        epsg |-> file["epsg"].data[index + 1],
        affine |-> file["affine"].data[index + 1],
        data |-> Cast3(img, ToUint16)]

\* metadata.update({"count": 1}); a 2-D label gets a band axis
LabelOut(file, index) ==
    LET img == file["img"].data[index + 1]
        lbl0 == file["lbl"].data[index + 1]
        lbl == IF Len(file["lbl"].shape) = 3 THEN <<lbl0>> ELSE lbl0
    IN [count |-> 1, height |-> Len(img[1]), width |-> Len(img[1][1]),
        epsg |-> file["epsg"].data[index + 1],
        affine |-> file["affine"].data[index + 1],
        data |-> Cast3(lbl, ToUint16)]

WithFile(folder, name, ras) ==
    [n \in DOMAIN folder \cup {name} |-> IF n = name THEN ras ELSE folder[n]]

EmptyFolder == [n \in {} |-> None]

\* the index list of a call: the index itself, the list given, or every row of /path
IndexListOk(f, index) ==
    index.kind = "none" => (f.exists /\ "path" \in DOMAIN f.ds)

IndexList(f, index) ==
    IF index.kind = "none" THEN [k \in 1..Len(f.ds["path"].data) |-> k - 1]
    ELSE index.list

RecCallResult(src, index) ==
    IF IndexListOk(h5[src], index)
    THEN [pc |-> "running", src |-> src, index |-> index,
          index_list |-> IndexList(h5[src], index),
          tasks |-> [k \in 1..Len(IndexList(h5[src], index)) |-> "todo"],
          err |-> None]
    ELSE [pc |-> "failed", src |-> src, index |-> index, index_list |-> <<>>,
          tasks |-> <<>>, err |-> "OpenError"]

RecTaskImage(k) ==
    /\ rec.pc = "running"
    /\ k \in DOMAIN rec.tasks
    /\ rec.tasks[k] = "todo"
    /\ LET file == h5[rec.src].ds
           index == rec.index_list[k]
       IN IF h5[rec.src].exists /\ RowReadable(file, index)
          THEN /\ out' = WithFile(out, RowName(file, index), ImageOut(file, index))
               /\ rec' = [rec EXCEPT !.tasks[k] = "img"]
          ELSE /\ out' = out
               /\ rec' = [rec EXCEPT !.pc = "failed", !.err = "IndexError",
                                     !.tasks[k] = "failed"]
    /\ UNCHANGED <<tree, h5, conv, tile, cli>>

RecTaskLabel(k) ==
    /\ rec.pc = "running"
    /\ k \in DOMAIN rec.tasks
    /\ rec.tasks[k] = "img"
    /\ LET file == h5[rec.src].ds
           index == rec.index_list[k]
       IN out' = WithFile(out, _label_name(RowName(file, index)), LabelOut(file, index))
    /\ rec' = [rec EXCEPT !.tasks[k] = "done"]
    /\ UNCHANGED <<tree, h5, conv, tile, cli>>

\* what a write that raised may leave behind: rio.open(..., "w") has created the file
Truncated ==
    [count |-> 0, height |-> 0, width |-> 0, epsg |-> 0, affine |-> <<>>, data |-> <<>>]

\* rio.open(..., "w") or dst.write raises (the file cannot be created, the disk is
\* full): the exception leaves _create_raster, nothing is removed; the file being
\* written is left truncated or was not created
RecTaskWriteFail(k) ==
    /\ rec.pc = "running"
    /\ k \in DOMAIN rec.tasks
    /\ rec.tasks[k] \in {"todo", "img"}
    /\ h5[rec.src].exists
    /\ RowReadable(h5[rec.src].ds, rec.index_list[k])
    /\ LET name == RowName(h5[rec.src].ds, rec.index_list[k])
           written == IF rec.tasks[k] = "todo" THEN name ELSE _label_name(name)
       IN \E left \in BOOLEAN :
             out' = IF left THEN WithFile(out, written, Truncated) ELSE out
    /\ rec' = [rec EXCEPT !.pc = "failed", !.err = "OSError", !.tasks[k] = "failed"]
    /\ UNCHANGED <<tree, h5, conv, tile, cli>>

RecFinish ==
    /\ rec.pc = "running"
    /\ \A k \in DOMAIN rec.tasks : rec.tasks[k] = "done"
    /\ rec' = [rec EXCEPT !.pc = "done"]
    /\ UNCHANGED <<tree, h5, out, conv, tile, cli>>

(***************************************************************************)
(* tiling.py: pure parts.                                                  *)
(***************************************************************************)
\* n_tiles = (((target_size - tile_size) // overlap) + 1) ** 2
n_tiles(target_size, tile_size, overlap) ==
    (((target_size - tile_size) \div overlap) + 1)
        * (((target_size - tile_size) \div overlap) + 1)

\* Python range(start, stop, step), step > 0
RECURSIVE PyRange(_, _, _)
PyRange(start, stop, step) ==
    IF start >= stop THEN <<>> ELSE <<start>> \o PyRange(start + step, stop, step)

\* the slice s[::step] of a sequence, step > 0
RECURSIVE EveryNth(_, _)
EveryNth(s, step) ==
    IF s = <<>> THEN <<>>
    ELSE <<Head(s)>> \o EveryNth(SubSeq(s, step + 1, Len(s)), step)

\* numpy pad of the two spatial axes of an array [C][H][W]; no pad width is negative
TilePadOk(arr, pad_size) ==
    (pad_size - Len(arr[1])) >= 0 /\ (pad_size - Len(arr[1][1])) >= 0

TilePad(arr, pad_size) ==
    LET h == Len(arr[1])
        w == Len(arr[1][1])
        pad_h == pad_size - h
        pad_w == pad_size - w
    IN [b \in DOMAIN arr |-> Pad2(arr[b], h, w, pad_h, pad_w)]

\* sliding_window_view: the offsets of the windows of length tile_size along an
\* axis of length n; a window longer than the axis is an error
WindowOk(n, tile_size) == tile_size >= 1 /\ tile_size <= n

WindowOffsets(n, tile_size) == [p \in 1..(n - tile_size + 1) |-> p - 1]

WindowAt(padded, row, col, tile_size) ==
    [b \in DOMAIN padded |->
        [r \in 1..tile_size |-> [c \in 1..tile_size |-> padded[b][row + r][col + c]]]]

_tile_array_ok(arr, tile_size, overlap, pad_size) ==
    TilePadOk(arr, pad_size) /\ WindowOk(pad_size, tile_size)

\* _tile_array for the block of one item, an array [C][H][W]: the windows of
\* strided[:, :, ::overlap, ::overlap], reshaped row-major
_tile_array(arr, tile_size, overlap, pad_size) ==
    LET padded == TilePad(arr, pad_size)
        offs == EveryNth(WindowOffsets(pad_size, tile_size), overlap)
    IN Flatten([i \in 1..Len(offs) |->
                  [j \in 1..Len(offs) |-> WindowAt(padded, offs[i], offs[j], tile_size)]])

\* rasterio Affine.from_gdal(c, a, b, f, d, e)
FromGdal(g) == [a |-> g[2], b |-> g[3], c |-> g[1], d |-> g[5], e |-> g[6], f |-> g[4]]

\* AffineTransformer.xy(row, col, offset="ul"): the transform applied to (col, row)
XY(at, row, col) == <<at.a * col + at.b * row + at.c, at.d * col + at.e * row + at.f>>

\* row and column passed to the transformer in the other order
_affine_from_rowcol_Swapped(affine, row, col) ==
    LET xy == XY(FromGdal(affine), col, row)
    IN <<xy[1], affine[2], affine[3], xy[2], affine[5], affine[6]>>

\* (x, *affine[1:3], y, *affine[-2:])
_affine_from_rowcol(affine, row, col) ==
    LET xy == XY(FromGdal(affine), row, col)
    IN <<xy[1], affine[2], affine[3], xy[2], affine[5], affine[6]>>

\* the offsets enumerated with the column in the outer loop
_tile_one_affine_ColumnMajor(affine, target_size, tile_size, overlap) ==
    LET offs == PyRange(0, target_size - tile_size + 1, overlap)
    IN Flatten([i \in 1..Len(offs) |->
                  [j \in 1..Len(offs) |-> _affine_from_rowcol(affine, offs[j], offs[i])]])

_tile_one_affine(affine, target_size, tile_size, overlap) ==
    LET offs == PyRange(0, target_size - tile_size + 1, overlap)
    IN Flatten([i \in 1..Len(offs) |->
                  [j \in 1..Len(offs) |-> _affine_from_rowcol(affine, offs[i], offs[j])]])

_tile_affines(affine, target_size, tile_size, overlap) ==
    Flatten([k \in 1..Len(affine) |->
                _tile_one_affine(affine[k], target_size, tile_size, overlap)])

\* np.repeat(epsg, n_tiles)
_tile_epsgs(epsg, n) == Flatten([k \in 1..Len(epsg) |-> [i \in 1..n |-> epsg[k]]])

\* str(n) for n >= 0
RECURSIVE Str(_)
Str(n) == IF n < 10 THEN Digit(n) ELSE Str(n \div 10) \o Digit(n % 10)

\* the format i:0{width} : str(i), filled with zeros on the left up to width
RECURSIVE ZeroFill(_, _)
ZeroFill(str, width) == IF Len(str) >= width THEN str ELSE ZeroFill("0" \o str, width)

\* max_path_chrs, the length of the entries of the tiled /path
max_path_chrs(path, n) ==
    SetMax({Len(path[k]) : k \in 1..Len(path)}) + Len(Str(n)) + 1

\* the tile index written without the zeros
TilePathName_NoFill(p, i, n) == p \o "_" \o Str(i)

TilePathName(p, i, n) == p \o "_" \o ZeroFill(Str(i), Len(Str(n)))

_tile_paths(path, n) ==
    Flatten([k \in 1..Len(path) |->
                [i \in 1..n |-> FitString(TilePathName(path[k], i - 1, n),
                                          max_path_chrs(path, n))]])

(***************************************************************************)
(* tile_img_h5.                                                            *)
(*   TileCall      lines 39-74: the source store is opened and read, the   *)
(*                 tiled arrays are declared (lazily) and the tiled paths, *)
(*                 EPSG codes and geotransforms are computed and checked   *)
(*   TileStoreImg  lines 79-89: the destination is opened in append mode,  *)
(*                 /img is created and the image tiles are computed and    *)
(*                 stored                                                  *)
(*   TileStoreLbl  lines 91-100: the same for /lbl                         *)
(*   TileStoreMeta lines 103-115: da.to_hdf5 of the means, the standard    *)
(*                 deviations, the paths, the EPSG codes, the geotransforms*)
(***************************************************************************)
\* the chunk_size argument of a caller: left out, or a number
NoChunk == [given |-> FALSE, size |-> 0]

Chunk(n) == [given |-> TRUE, size |-> n]

\* line 17: chunk_size: int | None = 1
chunk_size_of(arg) == IF arg.given THEN arg.size ELSE 1

\* asked: the chunk_size argument the caller of the function or of the command gave
TileIdle == [pc |-> "idle", src |-> None, dst |-> None, tile_size |-> 0, overlap |-> 0,
             target_size |-> 0, chunk_size |-> 0, err |-> None, via |-> None,
             dst0 |-> NoFile, asked |-> NoChunk]

TileRunning == tile.pc \in {"img", "lbl", "meta"}

StoreDatasets == {"img", "lbl", "img_means", "img_stds", "path", "epsg", "affine"}

\* the first error of the eager part of tile_img_h5, or None
TileCallError(f, tile_size, overlap, target_size) ==
    IF ~f.exists THEN "OpenError"
    ELSE IF ~({"img", "lbl"} \subseteq DOMAIN f.ds) THEN "KeyError"
    ELSE IF Len(f.ds["lbl"].shape) # 3 THEN "ValueError"
    ELSE IF ~(StoreDatasets \subseteq DOMAIN f.ds) THEN "KeyError"
    ELSE IF overlap = 0 THEN "ZeroDivisionError"
    ELSE IF Len(f.ds["path"].data) = 0 THEN "ValueError"
    ELSE IF Len(f.ds["img"].data) * n_tiles(target_size, tile_size, overlap)
              # Len(_tile_paths(f.ds["path"].data,
                                n_tiles(target_size, tile_size, overlap)))
         THEN "AssertionError"
    ELSE IF Len(f.ds["img"].data) * n_tiles(target_size, tile_size, overlap)
              # Len(_tile_epsgs(f.ds["epsg"].data,
                                n_tiles(target_size, tile_size, overlap)))
         THEN "AssertionError"
    ELSE IF Len(f.ds["img"].data) * n_tiles(target_size, tile_size, overlap)
              # Len(_tile_affines(f.ds["affine"].data, target_size, tile_size, overlap))
         THEN "AssertionError"
    ELSE None

TileCallResult(src, dst, tile_size, overlap, target_size, chunk_size, via, asked) ==
    LET e == TileCallError(h5[src], tile_size, overlap, target_size)
    IN [pc |-> IF e = None THEN "img" ELSE "failed", src |-> src, dst |-> dst,
        tile_size |-> tile_size, overlap |-> overlap, target_size |-> target_size,
        chunk_size |-> chunk_size, err |-> e, via |-> via, dst0 |-> h5[dst],
        asked |-> asked]

\* img: the source /img as int16; lbl: the source /lbl as int16 with a band axis
SrcImg(file) == [i \in 1..Len(file["img"].data) |-> Cast3(file["img"].data[i], ToInt16)]

SrcLbl(file) ==
    [i \in 1..Len(file["lbl"].data) |-> <<Cast2(file["lbl"].data[i], ToInt16)>>]

\* the shape declared by map_blocks: chunks of n_tiles rows, one per item
TiledShape(arr, n, tile_size) == <<Len(arr) * n, Len(arr[1]), tile_size, tile_size>>

\* create_dataset: the name is new and the chunk fits the shape
CreateChunkedOk(file, name, shape, chunk_size) ==
    CreateOk(file, name) /\ chunk_size >= 1 /\ chunk_size <= shape[1]

\* every block is computed and has the rows its chunk declares
BlocksOk(arr, n, tile_size, overlap, target_size) ==
    \A i \in 1..Len(arr) :
        /\ _tile_array_ok(arr[i], tile_size, overlap, target_size)
        /\ Len(_tile_array(arr[i], tile_size, overlap, target_size)) = n

Blocks(arr, tile_size, overlap, target_size) ==
    Flatten([i \in 1..Len(arr) |-> _tile_array(arr[i], tile_size, overlap, target_size)])

\* create_dataset and da.store of one tiled array: the file afterwards, and whether
\* both succeeded
StoreTiled(file, name, arr, tile_size, overlap, target_size, chunk_size) ==
    LET n == n_tiles(target_size, tile_size, overlap)
        shape == TiledShape(arr, n, tile_size)
        created == WithDataset(file, name,
                               [Dataset(shape, <<"int16">>, Zeros(shape, <<"int16">>))
                                   EXCEPT !.chunks = chunk_size])
    IN IF ~CreateChunkedOk(file, name, shape, chunk_size)
       THEN [file |-> file, ok |-> FALSE]
       ELSE IF ~BlocksOk(arr, n, tile_size, overlap, target_size)
       THEN [file |-> created, ok |-> FALSE]
       ELSE [file |-> [created EXCEPT ![name].data =
                          Blocks(arr, tile_size, overlap, target_size)],
             ok |-> TRUE]

TileStoreImg ==
    /\ tile.pc = "img"
    /\ LET r == StoreTiled(h5[tile.dst].ds, "img", SrcImg(h5[tile.src].ds),
                           tile.tile_size, tile.overlap, tile.target_size,
                           tile.chunk_size)
       IN /\ h5' = [h5 EXCEPT ![tile.dst] = Opened(r.file)]
          /\ tile' = IF r.ok THEN [tile EXCEPT !.pc = "lbl"]
                     ELSE [tile EXCEPT !.pc = "failed", !.err = "ValueError"]
    /\ UNCHANGED <<tree, out, conv, rec, cli>>

TileStoreLbl ==
    /\ tile.pc = "lbl"
    /\ LET r == StoreTiled(h5[tile.dst].ds, "lbl", SrcLbl(h5[tile.src].ds),
                           tile.tile_size, tile.overlap, tile.target_size,
                           tile.chunk_size)
       IN /\ h5' = [h5 EXCEPT ![tile.dst] = Opened(r.file)]
          /\ tile' = IF r.ok THEN [tile EXCEPT !.pc = "meta"]
                     ELSE [tile EXCEPT !.pc = "failed", !.err = "ValueError"]
    /\ UNCHANGED <<tree, out, conv, rec, cli>>

\* astype("int16") of a float: the fraction is dropped; a value outside the int16
\* range has no defined result (overflow: what the build makes of it)
FloatToInt16(num, den, overflow) ==
    IF (num \div den) \in -32768..32767 THEN num \div den
    ELSE IF overflow = "wrap" THEN ToInt16(num \div den) ELSE -32768

Overflows == {"wrap", "min"}

img_means_int16(file, overflow) ==
    [b \in 1..Len(file["img_means"].data) |->
        FloatToInt16(file["img_means"].data[b].num, file["img_means"].data[b].den,
                     overflow)]

img_stds_int16(file) ==
    [b \in 1..Len(file["img_stds"].data) |-> [int16_of |-> file["img_stds"].data[b]]]

\* the datasets the final to_hdf5 requires, in the order of the dictionary
TileMetaDatasets(src, tile_size, overlap, target_size) ==
    LET n == n_tiles(target_size, tile_size, overlap)
        rows == Len(src["img"].data) * n
    IN << <<"img_means", src["img_means"].shape, <<"int16">> >>,
          <<"img_stds", src["img_stds"].shape, <<"int16">> >>,
          <<"path", <<rows>>, <<"S", max_path_chrs(src["path"].data, n)>> >>,
          <<"epsg", <<rows>>, <<"int64">> >>,
          <<"affine", <<rows, 6>>, <<"float64">> >> >>

TileMetaStored(file, src, tile_size, overlap, target_size, overflow) ==
    LET n == n_tiles(target_size, tile_size, overlap)
    IN [file EXCEPT
          !["img_means"].data = img_means_int16(src, overflow),
          !["img_stds"].data = img_stds_int16(src),
          !["path"].data =
              [k \in 1..Len(_tile_paths(src["path"].data, n)) |->
                  FitString(_tile_paths(src["path"].data, n)[k], file["path"].dtype[2])],
          !["epsg"].data = _tile_epsgs(src["epsg"].data, n),
          !["affine"].data =
              _tile_affines(src["affine"].data, target_size, tile_size, overlap)]

TileStoreMeta ==
    /\ tile.pc = "meta"
    /\ LET src == h5[tile.src].ds
           r == RequireAll(h5[tile.dst].ds,
                           TileMetaDatasets(src, tile.tile_size, tile.overlap,
                                            tile.target_size))
       IN IF r.ok
          THEN /\ \E overflow \in Overflows :
                     h5' = [h5 EXCEPT ![tile.dst] =
                              Opened(TileMetaStored(r.file, src, tile.tile_size,
                                                    tile.overlap, tile.target_size,
                                                    overflow))]
               /\ tile' = [tile EXCEPT !.pc = "done"]
          ELSE /\ h5' = [h5 EXCEPT ![tile.dst] = Opened(r.file)]
               /\ tile' = [tile EXCEPT !.pc = "failed", !.err = "TypeError"]
    /\ UNCHANGED <<tree, out, conv, rec, cli>>

(***************************************************************************)
(* Calls from a caller of the library (direct calls).  One operation runs  *)
(* at a time, and each operation is called at most once in a behaviour.    *)
(***************************************************************************)
\* src_missing, dst_exists: what main found at the paths of the command;
\* started: main has called the operation
CliIdle == [pc |-> "idle", command |-> None, code |-> -1, printed |-> FALSE, err |-> None,
            src_missing |-> FALSE, dst_exists |-> FALSE, started |-> FALSE]

Quiet == ~ConvRunning /\ ~TileRunning /\ ~RecRunning /\ cli.pc # "running"

ConvDirect(dsts, bandargs) ==
    /\ Quiet
    /\ conv.pc = "idle"
    /\ \E dst \in dsts, image_bands \in bandargs :
          conv' = ConvCallResult(tree, dst, image_bands, "direct")
    /\ UNCHANGED <<tree, h5, out, tile, rec, cli>>

TileDirect(srcs, dsts, sizes, overlaps, chunks) ==
    /\ Quiet
    /\ tile.pc = "idle"
    /\ \E src \in srcs, dst \in dsts, tile_size \in sizes, overlap \in overlaps,
          target_size \in sizes, chunk_size \in chunks :
          tile' = TileCallResult(src, dst, tile_size, overlap, target_size,
                                 chunk_size_of(chunk_size), "direct", chunk_size)
    /\ UNCHANGED <<tree, h5, out, conv, rec, cli>>

\* convert_h5_to_img creates the destination folder when it is missing
RecDirect(srcs, indexes) ==
    /\ Quiet
    /\ rec.pc = "idle"
    /\ \E src \in srcs, index \in indexes : rec' = RecCallResult(src, index)
    /\ UNCHANGED <<tree, h5, out, conv, tile, cli>>

(***************************************************************************)
(* main(): the three commands.  A command either returns 1 after printing  *)
(* a message, or calls its operation and returns 0 when that returns; an   *)
(* exception of the operation, or of main itself, leaves main by raising.  *)
(***************************************************************************)
Returned(command, code, printed, src_missing, dst_exists, started) ==
    [pc |-> "returned", command |-> command, code |-> code, printed |-> printed,
     err |-> None, src_missing |-> src_missing, dst_exists |-> dst_exists,
     started |-> started]

Raised(command, err, src_missing, dst_exists, started) ==
    [pc |-> "raised", command |-> command, code |-> -1, printed |-> FALSE, err |-> err,
     src_missing |-> src_missing, dst_exists |-> dst_exists, started |-> started]

Running(command, src_missing, dst_exists) ==
    [pc |-> "running", command |-> command, code |-> -1, printed |-> FALSE, err |-> None,
     src_missing |-> src_missing, dst_exists |-> dst_exists, started |-> TRUE]

\* lines 130-144
MainImgToH5(roots, dsts, bandargs) ==
    /\ Quiet
    /\ cli.pc = "idle"
    /\ conv.pc = "idle"
    /\ \E root_exists \in roots, dst \in dsts, image_bands \in bandargs :
          IF ~root_exists
          THEN /\ cli' = Returned("img_to_h5", 1, TRUE, TRUE, h5[dst].exists, FALSE)
               /\ conv' = conv
          ELSE IF h5[dst].exists
          THEN /\ cli' = Returned("img_to_h5", 1, TRUE, FALSE, TRUE, FALSE)
               /\ conv' = conv
          ELSE /\ cli' = Running("img_to_h5", FALSE, FALSE)
               /\ conv' = ConvCallResult(tree, dst, image_bands, "cli")
    /\ UNCHANGED <<tree, h5, out, tile, rec>>

\* lines 145-151: the message of the missing source reads args.root_folder, an
\* attribute the h5_to_img namespace does not have
MainH5ToImg(srcs, indexes) ==
    /\ Quiet
    /\ cli.pc = "idle"
    /\ rec.pc = "idle"
    /\ \E src \in srcs, index \in indexes :
          IF ~h5[src].exists
          THEN /\ cli' = Raised("h5_to_img", "AttributeError", TRUE, FALSE, FALSE)
               /\ rec' = rec
          ELSE /\ cli' = Running("h5_to_img", FALSE, FALSE)
               /\ rec' = RecCallResult(src, index)
    /\ UNCHANGED <<tree, h5, out, conv, tile>>

\* lines 152-161: chunk_size is not passed on, tile_img_h5 uses its default of 1
MainTileH5(srcs, dsts, sizes, overlaps, chunks) ==
    /\ Quiet
    /\ cli.pc = "idle"
    /\ tile.pc = "idle"
    /\ \E src \in srcs, dst \in dsts, tile_size \in sizes, overlap \in overlaps,
          target_size \in sizes, chunk_size \in chunks :
          IF h5[dst].exists
          THEN /\ cli' = Returned("tile_h5", 1, TRUE, ~h5[src].exists, TRUE, FALSE)
               /\ tile' = tile
          ELSE /\ cli' = Running("tile_h5", ~h5[src].exists, FALSE)
               /\ tile' = TileCallResult(src, dst, tile_size, overlap, target_size,
                                         chunk_size_of(NoChunk), "cli", chunk_size)
    /\ UNCHANGED <<tree, h5, out, conv, rec>>

\* the state of the operation the running command called
CalledPc == CASE cli.command = "img_to_h5" -> conv.pc
              [] cli.command = "h5_to_img" -> rec.pc
              [] cli.command = "tile_h5" -> tile.pc
              [] OTHER -> "idle"

CalledErr == CASE cli.command = "img_to_h5" -> conv.err
               [] cli.command = "h5_to_img" -> rec.err
               [] cli.command = "tile_h5" -> tile.err
               [] OTHER -> None

\* line 165, or the exception of the operation passing through main
MainEnd ==
    /\ cli.pc = "running"
    /\ CalledPc \in {"done", "failed"}
    /\ cli' = IF CalledPc = "done"
              THEN Returned(cli.command, 0, FALSE, cli.src_missing, cli.dst_exists, TRUE)
              ELSE Raised(cli.command, CalledErr, cli.src_missing, cli.dst_exists, TRUE)
    /\ UNCHANGED <<tree, h5, out, conv, tile, rec>>

(***************************************************************************)
(* Specifications.                                                         *)
(***************************************************************************)
StemsAll == {"s", "im1"}

\* image_bands: None, the first n bands, or one single band (one of them beyond
\* every band count)
BandArgs ==
    {NoBands} \cup {Bands([k \in 1..n |-> k]) : n \in 1..MaxBands}
              \cup {Bands(<<n>>) : n \in 2..(MaxBands + 1)}

InitCalls ==
    /\ out = EmptyFolder
    /\ conv = ConvIdle
    /\ tile = TileIdle
    /\ rec = RecIdle
    /\ cli = CliIdle

\* SpecPack: convert_img_to_h5 on every source folder of the family
InitPack ==
    /\ tree \in Trees(StemsAll, LabelKinds)
    /\ h5 = [n \in H5Names |-> NoFile]
    /\ InitCalls

ConvSteps ==
    \/ ConvOpen
    \/ ConvStoreMeta
    \/ \E i \in 1..MaxItems : ConvStoreRow(i)
    \/ \E i \in 1..MaxItems : ConvStoreFail(i)
    \/ ConvStats

NextPack ==
    \/ ConvDirect({"a.h5"}, BandArgs)
    \/ ConvSteps

SpecPack == InitPack /\ [][NextPack]_vars

\* the store a complete convert_img_to_h5 of folder t leaves in a new file
PackedStore(t, image_bands) ==
    LET f0 == RequireAll(EmptyFile, ConvDatasets(t, image_bands)).file
        f1 == StoredMeta(t, f0)
        f2 == [f1 EXCEPT
                 !["img"].data = [i \in 1..Len(l_images(t)) |-> RowImage(t, i, image_bands)],
                 !["lbl"].data = [i \in 1..Len(l_images(t)) |-> RowLabel(t, i)]]
    IN _compute_statistics(f2).file

Packable(t, image_bands) ==
    /\ ValidationError(t, image_bands) = None
    /\ \A i \in 1..Len(l_images(t)) : RowImageOk(t, i, image_bands) /\ RowLabelOk(t, i)

\* Spec: convert_img_to_h5 followed by convert_h5_to_img (the round trip)
RecIndexes ==
    {NoIndex, ListIndex(<<>>)}
        \cup {IntIndex(i) : i \in 0..MaxItems}
        \cup {ListIndex(<<i, j>>) : i \in 0..(MaxItems - 1), j \in 0..(MaxItems - 1)}

RecSteps ==
    \/ \E k \in 1..MaxItems : RecTaskImage(k)
    \/ \E k \in 1..MaxItems : RecTaskLabel(k)
    \/ \E k \in 1..MaxItems : RecTaskWriteFail(k)
    \/ RecFinish

\* the source folders of the round trip: every directory has its label.tif; the
\* directories are of the smallest or the largest side and band count, the last
\* one deviates in height, width, band count, stem and in the file the label
\* pattern matches
RoundTripTrees ==
    {TreeOf(n, s, oh, ow, on, ostem, olbl) :
        n \in 1..MaxItems, s \in {1, MaxSide}, oh \in {1, MaxSide}, ow \in {1, MaxSide},
        on \in {1, MaxBands}, ostem \in StemsAll, olbl \in {"label", "both"}}

Init ==
    /\ tree \in RoundTripTrees
    /\ h5 = [n \in H5Names |-> NoFile]
    /\ InitCalls

Next ==
    \/ ConvDirect({"a.h5"}, {NoBands, Bands(<<1>>)})
    \/ ConvSteps
    \/ RecDirect({"a.h5"}, RecIndexes)
    \/ RecSteps

Spec == Init /\ [][Next]_vars

\* SpecTile: tile_img_h5 on the stores of uniform source folders
\* (the stems differ in length: "s", "im2", ...)
UniformTree(n, h, w, c) ==
    [i \in 1..n |->
        Directory(i - 1, IF i = 1 THEN "s" ELSE BaseStem(i), h, w, c, "label")]

UniformTrees ==
    {UniformTree(n, h, w, c) : n \in 1..MaxItems, h \in Sides, w \in Sides,
                               c \in 1..MaxBands}

TileSizes == 1..MaxTarget

TileOverlaps == 0..MaxTarget

TileChunks == {NoChunk, Chunk(1), Chunk(2)}

InitTile ==
    /\ tree \in UniformTrees
    /\ h5 = [n \in H5Names |->
               IF n = "a.h5" THEN Opened(PackedStore(tree, NoBands)) ELSE NoFile]
    /\ InitCalls

TileSteps ==
    \/ TileStoreImg
    \/ TileStoreLbl
    \/ TileStoreMeta

NextTile ==
    \/ TileDirect({"a.h5"}, {"t.h5"}, TileSizes, TileOverlaps, TileChunks)
    \/ TileSteps

SpecTile == InitTile /\ [][NextTile]_vars

\* SpecMain: the command line and direct calls, with destinations that may exist
\* before the call
MainTrees ==
    {TreeOf(n, 1, 2, 1, MaxBands, "s", olbl) : n \in 1..MaxItems, olbl \in {"label", "mask"}}

\* a folder with the names and shapes of t and other pixels
OtherFolder(t) ==
    [d \in 1..Len(t) |->
        [f \in 1..Len(t[d]) |->
            [t[d][f] EXCEPT !.ras =
                IF t[d][f].label
                THEN LabelRaster(d + MaxItems, t[d][f].ras.height, t[d][f].ras.width)
                ELSE ImageRaster(d + MaxItems, t[d][f].ras.height, t[d][f].ras.width,
                                 t[d][f].ras.count)]]]

\* what may be at the destination of the packer before the call: nothing, an HDF5
\* file without datasets, or the store of an earlier run over another folder
ExistingStores(t) ==
    {NoFile, Opened(EmptyFile)}
        \cup (IF Packable(OtherFolder(t), NoBands)
              THEN {Opened(PackedStore(OtherFolder(t), NoBands))} ELSE {})

\* what may be at the destination of the tiler before the call
ExistingTiled == {NoFile, Opened(EmptyFile)}

InitMain ==
    /\ tree \in MainTrees
    /\ h5 \in {f \in [H5Names -> ExistingStores(tree) \cup ExistingTiled] :
                 f["a.h5"] \in ExistingStores(tree) /\ f["t.h5"] \in ExistingTiled}
    /\ InitCalls

MainSizes == 1..2

NextMain ==
    \/ MainImgToH5({TRUE, FALSE}, {"a.h5"}, {NoBands})
    \/ MainH5ToImg({"a.h5"}, {NoIndex, ListIndex(<<0>>)})
    \/ MainTileH5({"a.h5"}, {"t.h5"}, MainSizes, {1}, {NoChunk, Chunk(2)})
    \/ MainEnd
    \/ ConvDirect({"a.h5"}, {NoBands})
    \/ TileDirect({"a.h5"}, {"t.h5"}, MainSizes, {1}, {NoChunk, Chunk(2)})
    \/ RecDirect({"a.h5"}, {NoIndex})
    \/ ConvSteps
    \/ TileSteps
    \/ RecSteps

SpecMain == InitMain /\ [][NextMain]_vars

(***************************************************************************)
(* Properties of the round trip (Spec).                                    *)
(***************************************************************************)
NumImages == Len(l_images(tree))

OrigImage(k) == FileAt(tree, l_images(tree)[k]).ras

\* the label file the label pattern matches in the directory of image k
MatchedLabel(k) == FileAt(tree, l_labels(tree)[k]).ras

\* the raster label.tif in the directory of image k
LabelTif(k) ==
    LET d == tree[l_images(tree)[k][1]]
    IN d[CHOOSE f \in 1..Len(d) : d[f].name = "label"].ras

OrigStem(k) == FileAt(tree, l_images(tree)[k]).name

CanvasHeight == SetMax({OrigImage(k).height : k \in 1..NumImages})

CanvasWidth == SetMax({OrigImage(k).width : k \in 1..NumImages})

\* the bands the conversion was asked for: the list given, else 1..(largest band count)
AskedBands ==
    IF conv.image_bands.given THEN conv.image_bands.list
    ELSE [b \in 1..SetMax({OrigImage(k).count : k \in 1..NumImages}) |-> b]

\* band array `a` of a raster of h x w pixels on the canvas: zero right of and below it
OnCanvas(a, h, w) ==
    [r \in 1..CanvasHeight |->
        [c \in 1..CanvasWidth |-> IF r <= h /\ c <= w THEN a[r][c] ELSE 0]]

CanvasImage(k) ==
    [count |-> Len(AskedBands), height |-> CanvasHeight, width |-> CanvasWidth,
     epsg |-> OrigImage(k).epsg, affine |-> OrigImage(k).affine,
     data |-> [b \in 1..Len(AskedBands) |->
                 OnCanvas(OrigImage(k).data[AskedBands[b]],
                          OrigImage(k).height, OrigImage(k).width)]]

CanvasLabel(k) ==
    [count |-> 1, height |-> CanvasHeight, width |-> CanvasWidth,
     epsg |-> OrigImage(k).epsg, affine |-> OrigImage(k).affine,
     data |-> <<OnCanvas(LabelTif(k).data[1], LabelTif(k).height, LabelTif(k).width)>>]

\* convert_img_to_h5 has completed and convert_h5_to_img(index=None) on its store too
RoundTripDone == conv.pc = "done" /\ rec.pc = "done" /\ rec.index.kind = "none"

C6_SelectedRowsWritten ==
    (conv.pc = "done" /\ rec.pc = "done") =>
        LET file == h5[rec.src].ds
            selected == Range(rec.index_list)
        IN /\ DOMAIN out = {RowName(file, i) : i \in selected}
                              \cup {_label_name(RowName(file, i)) : i \in selected}
           /\ Cardinality(DOMAIN out) = 2 * Cardinality(selected)
           /\ \A i \in selected :
                 /\ out[RowName(file, i)] = ImageOut(file, i)
                 /\ out[_label_name(RowName(file, i))] = LabelOut(file, i)

(***************************************************************************)
(* Properties of convert_img_to_h5 (SpecPack).                             *)
(***************************************************************************)
\* C7: when image_bands is given and two discovered images differ in band count,
\* the conversion fails with a validation error and the destination file is never
\* created: the check precedes every load and every write.
C7_BandCountMismatchFails ==
    ( /\ conv.pc # "idle"
      /\ conv.image_bands.given
      /\ conv.image_bands.list # <<>>
      /\ \E i, j \in 1..NumImages : OrigImage(i).count # OrigImage(j).count )
    => /\ conv.pc = "failed"
       /\ conv.err \in {"CountMismatch", "BandCountMismatch"}
       /\ \A n \in H5Names : h5[n] = NoFile

\* a conversion with image_bands given that the band count assertion has stopped
C7_Witness ==
    /\ conv.pc = "failed"
    /\ conv.err = "BandCountMismatch"
    /\ conv.image_bands.given
    /\ \E i, j \in 1..NumImages : OrigImage(i).count # OrigImage(j).count

\* the probe of the sizes has been reached: the image and label counts agree
Probed == NumImages > 0 /\ Len(l_labels(tree)) = NumImages

\* the smallest width (height) is less than half of the largest
SidesDisparate ==
    \E i, j \in 1..NumImages :
        \/ 2 * OrigImage(i).width < OrigImage(j).width
        \/ 2 * OrigImage(i).height < OrigImage(j).height

\* C8: the size warning is emitted exactly when min/max of the probed widths or of
\* the probed heights is below 0.5; it is not fatal: a conversion that warned fails
\* only where it fails without the warning, and when it completes the store holds
\* every image and label on the canvas, with its stem, CRS and geotransform.
C8_SizeWarning ==
    conv.pc # "idle" =>
        /\ conv.warned <=> (Probed /\ SidesDisparate)
        /\ (conv.warned /\ Packable(tree, conv.image_bands)) => conv.pc # "failed"
        /\ (conv.warned /\ conv.pc = "done") =>
              LET file == h5[conv.dst].ds
              IN \A k \in 1..NumImages :
                    /\ file["img"].data[k] = CanvasImage(k).data
                    /\ file["lbl"].data[k] = CanvasLabel(k).data[1]
                    /\ file["path"].data[k] = OrigStem(k)
                    /\ file["epsg"].data[k] = OrigImage(k).epsg
                    /\ file["affine"].data[k] = OrigImage(k).affine

\* a conversion that warned about the sizes and completed
C8_Witness == conv.pc = "done" /\ conv.warned /\ SidesDisparate

(***************************************************************************)
(* Properties of tile_img_h5 (SpecTile).                                   *)
(***************************************************************************)
TileSrc == h5[tile.src].ds

TileDst == h5[tile.dst].ds

NumItems == Len(TileSrc["img"].data)

\* windows per side and per item for the arguments of the call
NSide == ((tile.target_size - tile.tile_size) \div tile.overlap) + 1

NWindows == NSide * NSide

\* the row and column offset of tile i (from 0) of an item, row-major
RowOffset(i) == (i \div NSide) * tile.overlap

ColOffset(i) == (i % NSide) * tile.overlap

\* the row (from 0) of tile i of item j (from 1) in the tiled store
TileRow(j, i) == (j - 1) * NWindows + i

\* pixel (r, c) (from 0) of a band on the target canvas: 0 outside the band's extent
CanvasPixel(band, r, c) ==
    IF r < Len(band) /\ c < Len(band[1]) THEN band[r + 1][c + 1] ELSE 0

\* the window of tile i of an array [C][H][W]
ExpectedWindow(arr, i) ==
    [b \in 1..Len(arr) |->
        [r \in 1..tile.tile_size |->
            [c \in 1..tile.tile_size |->
                CanvasPixel(arr[b], RowOffset(i) + r - 1, ColOffset(i) + c - 1)]]]

\* GDAL: the point of pixel (row, col) under geotransform g
GeoPoint(g, row, col) ==
    <<g[1] + col * g[2] + row * g[3], g[4] + col * g[5] + row * g[6]>>

\* C2: in a completed tiled store, the tile at (row offset, column offset) of item j,
\* read back through the reconstructor's uint16 cast, is the tile_size window of
\* item j's image and label at that offset on the target canvas: the original pixel
\* inside the item's extent and 0 outside of it.
C2_TileContent ==
    tile.pc = "done" =>
        \A j \in 1..NumItems, i \in 0..(NWindows - 1) :
            /\ ImageOut(TileDst, TileRow(j, i)).data
                  = ExpectedWindow(TileSrc["img"].data[j], i)
            /\ LabelOut(TileDst, TileRow(j, i)).data
                  = ExpectedWindow(<<TileSrc["lbl"].data[j]>>, i)

\* a completed tiling with padding, several windows and a pixel beyond the int16 range
C2_Witness ==
    /\ tile.pc = "done"
    /\ NSide >= 2
    /\ tile.target_size > Len(TileSrc["img"].data[1][1])
    /\ \E k \in 1..Len(TileDst["img"].data), r, c \in 1..tile.tile_size :
          /\ TileDst["img"].data[k][1][r][c] < 0
          /\ ImageOut(TileDst, k - 1).data[1][r][c] >= 32768

\* height and width of the stored items
StoredHeight == Len(TileSrc["img"].data[1][1])

StoredWidth == Len(TileSrc["img"].data[1][1][1])

\* the call was made with overlap >= 1 and target_size >= tile_size >= 1
TileArgsValid ==
    /\ tile.pc # "idle"
    /\ tile.overlap >= 1
    /\ tile.tile_size >= 1
    /\ tile.target_size >= tile.tile_size

\* /img, /lbl, /path, /epsg and /affine of the destination have n rows
FiveDatasetsOfLength(n) ==
    /\ RowDatasets \subseteq DOMAIN TileDst
    /\ \A name \in RowDatasets :
          Len(TileDst[name].data) = n /\ TileDst[name].shape[1] = n

\* C3: for all tile_size, overlap >= 1 and target_size >= tile_size,
\* tile_img_h5 (with its default chunk_size of 1) ends with /img, /lbl, /path,
\* /epsg and /affine of leading length exactly N * n_side^2.
C3_RowCountsAlways ==
    (TileArgsValid /\ tile.chunk_size = 1 /\ tile.pc \in {"done", "failed"})
    => (tile.pc = "done" /\ FiveDatasetsOfLength(NumItems * NWindows))

\* C4: the geotransform of the tile at pixel offset (r, c) of a parent with
\* geotransform (x0, a, b, y0, d, e) is (x0 + c*a + r*b, a, b, y0 + c*d + r*e, d, e),
\* so pixel (i, j) of the tile lies where pixel (r + i, c + j) of the parent lies.
C4_TileGeotransform ==
    TileArgsValid =>
        \A j \in 1..NumItems, i \in 0..(NWindows - 1) :
            LET g == TileSrc["affine"].data[j]
                t == _tile_one_affine(g, tile.target_size, tile.tile_size,
                                      tile.overlap)[i + 1]
                r == RowOffset(i)
                c == ColOffset(i)
            IN /\ t = <<g[1] + c * g[2] + r * g[3], g[2], g[3],
                        g[4] + c * g[5] + r * g[6], g[5], g[6]>>
               /\ \A p, q \in 0..(tile.tile_size - 1) :
                     GeoPoint(t, p, q) = GeoPoint(g, r + p, c + q)
               /\ tile.pc = "done" => TileDst["affine"].data[TileRow(j, i) + 1] = t

\* a completed tiling with several windows of a parent whose geotransform is rotated
C4_Witness ==
    /\ tile.pc = "done"
    /\ NSide >= 2
    /\ \E j \in 1..NumItems : TileSrc["affine"].data[j][3] # 0

\* the number a string of decimal digits denotes, -1 for any other string
DigitValue(ch) ==
    IF \E d \in 0..9 : Digit(d) = ch THEN CHOOSE d \in 0..9 : Digit(d) = ch ELSE -1

RECURSIVE ParseNat(_)
ParseNat(str) ==
    IF Len(str) = 0 THEN -1
    ELSE IF DigitValue(SubSeq(str, Len(str), Len(str))) = -1 THEN -1
    ELSE IF Len(str) = 1 THEN DigitValue(str)
    ELSE IF ParseNat(SubSeq(str, 1, Len(str) - 1)) = -1 THEN -1
    ELSE 10 * ParseNat(SubSeq(str, 1, Len(str) - 1))
           + DigitValue(SubSeq(str, Len(str), Len(str)))

\* the stored value of an unsigned 16-bit pixel in the tiler's int16 datasets
Signed16(v) == IF v >= 32768 THEN v - 65536 ELSE v

SignedWindow(arr, i) ==
    [b \in 1..Len(arr) |->
        [r \in 1..tile.tile_size |->
            [c \in 1..tile.tile_size |-> Signed16(ExpectedWindow(arr, i)[b][r][c])]]]

\* C5: in a completed tiled store the five entries of row k = j*n_tiles + i describe
\* the same tile: the identifier is parent j's identifier followed by "_" and the
\* index i, the EPSG is parent j's, the geotransform origin is the point of the
\* offsets (floor(i / n_side) * overlap, (i mod n_side) * overlap), and the image
\* and label tiles are the windows of item j at exactly those offsets.
C5_RowsAligned ==
    tile.pc = "done" =>
        /\ FiveDatasetsOfLength(NumItems * NWindows)
        /\ \A j \in 1..NumItems, i \in 0..(NWindows - 1) :
              LET k == TileRow(j, i) + 1
                  parent == TileSrc["path"].data[j]
                  name == TileDst["path"].data[k]
                  g == TileSrc["affine"].data[j]
                  origin == GeoPoint(g, RowOffset(i), ColOffset(i))
              IN /\ Len(name) > Len(parent) + 1
                 /\ SubSeq(name, 1, Len(parent) + 1) = parent \o "_"
                 /\ ParseNat(SubSeq(name, Len(parent) + 2, Len(name))) = i
                 /\ TileDst["epsg"].data[k] = TileSrc["epsg"].data[j]
                 /\ TileDst["affine"].data[k][1] = origin[1]
                 /\ TileDst["affine"].data[k][4] = origin[2]
                 /\ TileDst["img"].data[k] = SignedWindow(TileSrc["img"].data[j], i)
                 /\ TileDst["lbl"].data[k] = SignedWindow(<<TileSrc["lbl"].data[j]>>, i)

\* a completed tiling of two items with rows and columns of windows that differ:
\* a tile whose row offset and column offset are not the same
C5_Witness ==
    /\ tile.pc = "done"
    /\ NumItems = 2
    /\ NSide >= 2
    /\ StoredHeight # StoredWidth
    /\ \E i \in 0..(NWindows - 1) : RowOffset(i) # ColOffset(i)

\* the order of the code points of the characters of identifiers
Alphabet == "0123456789_abcdefghijklmnopqrstuvwxyz"

Ord(ch) == CHOOSE i \in 1..Len(Alphabet) : SubSeq(Alphabet, i, i) = ch

\* a < b for python strings
RECURSIVE LexLess(_, _)
LexLess(a, b) ==
    IF Len(b) = 0 THEN FALSE
    ELSE IF Len(a) = 0 THEN TRUE
    ELSE IF SubSeq(a, 1, 1) = SubSeq(b, 1, 1)
         THEN LexLess(SubSeq(a, 2, Len(a)), SubSeq(b, 2, Len(b)))
    ELSE Ord(SubSeq(a, 1, 1)) < Ord(SubSeq(b, 1, 1))

\* the number of decimal digits of n >= 0
RECURSIVE NumDigits(_)
NumDigits(n) == IF n < 10 THEN 1 ELSE 1 + NumDigits(n \div 10)

\* the stored identifier of tile i (from 0) of item j (from 1)
TileName(j, i) == TileDst["path"].data[TileRow(j, i) + 1]

\* C18: after a completed tiling the identifier of tile i of parent j is the
\* parent's identifier, "_", and i in decimal filled with zeros to the number of
\* digits of n_tiles; for the tiles of one parent the lexicographic order of the
\* identifiers is the numeric order of the tile indices; every identifier is
\* stored in full (the string length of /path holds it); and two different
\* (parent, tile index) pairs whose parents are the same item or have different
\* identifiers have different identifiers.
C18_TileIdentifiers ==
    tile.pc = "done" =>
        /\ Len(TileDst["path"].data) = NumItems * NWindows
        /\ \A j \in 1..NumItems, i \in 0..(NWindows - 1) :
              LET parent == TileSrc["path"].data[j]
                  name == TileName(j, i)
                  digits == SubSeq(name, Len(parent) + 2, Len(name))
              IN /\ Len(name) = Len(parent) + 1 + NumDigits(NWindows)
                 /\ SubSeq(name, 1, Len(parent)) = parent
                 /\ SubSeq(name, Len(parent) + 1, Len(parent) + 1) = "_"
                 /\ ParseNat(digits) = i
                 /\ Len(name) <= TileDst["path"].dtype[2]
        /\ \A j \in 1..NumItems, i1, i2 \in 0..(NWindows - 1) :
              (i1 < i2) <=> LexLess(TileName(j, i1), TileName(j, i2))
        /\ \A j1, j2 \in 1..NumItems, i1, i2 \in 0..(NWindows - 1) :
              (/\ <<j1, i1>> # <<j2, i2>>
               /\ (j1 = j2 \/ TileSrc["path"].data[j1] # TileSrc["path"].data[j2]))
              => TileName(j1, i1) # TileName(j2, i2)

\* a completed tiling into ten or more tiles per item of two items whose
\* identifiers differ in length: tile 2 is written "02" and sorts before tile 10
C18_Witness ==
    /\ tile.pc = "done"
    /\ NumItems = 2
    /\ NWindows >= 10
    /\ Len(TileSrc["path"].data[1]) # Len(TileSrc["path"].data[2])
    /\ TileName(2, 2) = TileSrc["path"].data[2] \o "_02"
    /\ LexLess(TileName(2, 2), TileName(2, 10))

(***************************************************************************)
(* Properties of the destination and of main (SpecMain).                   *)
(***************************************************************************)
\* C9: when the destination store exists at the time convert_img_to_h5 or
\* tile_img_h5 is invoked, from main or directly, the operation does not run to
\* completion and the existing destination stays as it was.
C9_ExistingDestinationUnchanged ==
    /\ (conv.pc # "idle" /\ conv.dst0.exists)
          => (h5[conv.dst] = conv.dst0 /\ conv.pc # "done")
    /\ (tile.pc # "idle" /\ tile.dst0.exists)
          => (h5[tile.dst] = tile.dst0 /\ tile.pc # "done")

\* C10: main returns 1 after printing a message, without calling the operation,
\* whenever the source path of the command is missing or its destination file
\* exists, and returns 0 when the operation it called has completed.
C10_MainExitCodes ==
    /\ (cli.pc # "idle" /\ (cli.src_missing \/ cli.dst_exists))
          => (cli.pc = "returned" /\ cli.code = 1 /\ cli.printed /\ ~cli.started)
    /\ (cli.pc \in {"returned", "raised"} /\ cli.started /\ CalledPc = "done")
          => (cli.pc = "returned" /\ cli.code = 0)

(***************************************************************************)
(* Further properties of tile_img_h5 (SpecTile).                           *)
(***************************************************************************)
\* C11: a call of tile_img_h5 with tile_size > target_size (and overlap >= 1) ends
\* with a validation error, and at no time does the destination file exist.
C11_TileSizeRejected ==
    (tile.pc # "idle" /\ tile.overlap >= 1 /\ tile.tile_size > tile.target_size)
    => /\ ~h5[tile.dst].exists
       /\ tile.pc # "done"
       /\ tile.pc = "failed" => tile.err = "AssertionError"

\* C12: for every stored item and every target_size >= tile_size (overlap >= 1,
\* default chunk_size) the tiler brings image and label to target_size x target_size,
\* zero-padding a smaller and cropping a larger item at the bottom and the right,
\* and the tiling succeeds: every tile is the window of that canvas.
C12_PadOrCrop ==
    (TileArgsValid /\ tile.chunk_size = 1 /\ tile.pc \in {"done", "failed"})
    => /\ tile.pc = "done"
       /\ \A j \in 1..NumItems, i \in 0..(NWindows - 1) :
             /\ TileDst["img"].data[TileRow(j, i) + 1]
                   = SignedWindow(TileSrc["img"].data[j], i)
             /\ TileDst["lbl"].data[TileRow(j, i) + 1]
                   = SignedWindow(<<TileSrc["lbl"].data[j]>>, i)

(***************************************************************************)
(* Further properties of convert_img_to_h5 (SpecPack).                     *)
(***************************************************************************)
\* band `stored` holds band `orig` of a raster of h x w pixels in its top-left
\* region, has the canvas size, and is 0 everywhere else
TopLeftOnCanvas(stored, orig, h, w) ==
    /\ Len(stored) = CanvasHeight
    /\ \A r \in 1..CanvasHeight :
          /\ Len(stored[r]) = CanvasWidth
          /\ \A c \in 1..CanvasWidth :
                stored[r][c] = IF r <= h /\ c <= w THEN orig[r][c] ELSE 0

\* C13: every item of a completed store has exactly the canvas size (largest
\* height, largest width of the probed images); the original pixels of the selected
\* bands, and of the label raster read for the item (label.tif of its directory),
\* lie unchanged in the top-left region, every added pixel (bottom and right) is 0.
C13_PaddedToCanvas ==
    conv.pc = "done" =>
        LET file == h5[conv.dst].ds
        IN /\ file["img"].shape
                = <<NumImages, Len(AskedBands), CanvasHeight, CanvasWidth>>
           /\ file["lbl"].shape = <<NumImages, CanvasHeight, CanvasWidth>>
           /\ \A k \in 1..NumImages :
                 /\ Len(file["img"].data[k]) = Len(AskedBands)
                 /\ \A b \in 1..Len(AskedBands) :
                       TopLeftOnCanvas(file["img"].data[k][b],
                                       OrigImage(k).data[AskedBands[b]],
                                       OrigImage(k).height, OrigImage(k).width)
                 /\ TopLeftOnCanvas(file["lbl"].data[k], LabelTif(k).data[1],
                                    LabelTif(k).height, LabelTif(k).width)

\* a completed store with an item lower and narrower than the canvas, packed with a
\* band selection
C13_Witness ==
    /\ conv.pc = "done"
    /\ conv.image_bands.given
    /\ \E k \in 1..NumImages :
          OrigImage(k).height < CanvasHeight /\ OrigImage(k).width < CanvasWidth

\* C14: the identifiers in /path of a completed store are pairwise distinct, so no
\* two rows are reconstructed to the same file name.
C14_IdentifiersDistinct ==
    conv.pc = "done" =>
        LET path == h5[conv.dst].ds["path"].data
        IN \A i, j \in 1..Len(path) : path[i] = path[j] => i = j

(***************************************************************************)
(* Further properties of convert_h5_to_img (Spec).                         *)
(***************************************************************************)
\* C15: when _create_raster has failed for an index of a completed store (reading
\* the row, writing the image raster or writing the label raster), neither the
\* image file nor the _label file of that index is in the destination folder.
C15_AllOrNothingPerIndex ==
    \A k \in DOMAIN rec.tasks :
        (rec.tasks[k] = "failed" /\ conv.pc = "done" /\ h5[rec.src].exists
           /\ RowReadable(h5[rec.src].ds, rec.index_list[k]))
        => LET name == RowName(h5[rec.src].ds, rec.index_list[k])
           IN name \notin DOMAIN out /\ _label_name(name) \notin DOMAIN out

(***************************************************************************)
(* Further properties of the stores (SpecPack, SpecTile).                  *)
(***************************************************************************)
\* C16: once convert_img_to_h5 has ended, by returning or by raising, the destination
\* does not exist or holds a complete store: /img, /lbl, /path, /epsg and /affine
\* with N rows each, and /img_means and /img_stds.
C16_CompleteOrAbsent ==
    conv.pc \in {"done", "failed"} =>
        \/ ~h5["a.h5"].exists
        \/ LET file == h5["a.h5"].ds
           IN /\ DOMAIN file = RowDatasets \cup {"img_means", "img_stds"}
              /\ \A name \in RowDatasets : Len(file[name].data) = NumImages

\* C17: every complete store, packed or tiled, has the same dataset shapes: /img
\* [N, C, H, W], /lbl [N, 1, H, W], /path [N], /epsg [N], /affine [N, 6],
\* /img_means [C], /img_stds [C]; tile_img_h5 accepts it as its source.
C17_SameSchema ==
    \A n \in H5Names :
        (h5[n].exists /\ StoreDatasets \subseteq DOMAIN h5[n].ds)
        => LET file == h5[n].ds
               N == file["img"].shape[1]
               C == file["img"].shape[2]
           IN /\ Len(file["img"].shape) = 4
              /\ file["lbl"].shape
                   = <<N, 1, file["img"].shape[3], file["img"].shape[4]>>
              /\ file["path"].shape = <<N>>
              /\ file["epsg"].shape = <<N>>
              /\ file["affine"].shape = <<N, 6>>
              /\ file["img_means"].shape = <<C>>
              /\ file["img_stds"].shape = <<C>>
              /\ TileCallError(h5[n], 1, 1, SetMax({file["img"].shape[3],
                                                    file["img"].shape[4]})) = None

\* C19: after a completed tiling, called directly or through the tile_h5 command,
\* the leading chunk length of /img and /lbl of the destination is the chunk_size
\* the caller gave, and 1 when the caller gave none.
C19_ChunkSizeHonoured ==
    tile.pc = "done" =>
        \A name \in {"img", "lbl"} :
            h5[tile.dst].ds[name].chunks = (IF tile.asked.given THEN tile.asked.size ELSE 1)

\* C20: in a completed store row k holds, in every order of the load tasks, the
\* k-th discovered image (its selected bands on the canvas), the file the label
\* pattern matches in that image's directory (on the canvas), the image's stem,
\* its EPSG code and its geotransform.
C20_RowsFromSameItem ==
    conv.pc = "done" =>
        LET file == h5[conv.dst].ds
        IN \A k \in 1..NumImages :
              /\ file["img"].data[k] = CanvasImage(k).data
              /\ file["lbl"].data[k]
                    = OnCanvas(MatchedLabel(k).data[1], MatchedLabel(k).height,
                               MatchedLabel(k).width)
              /\ file["path"].data[k] = OrigStem(k)
              /\ file["epsg"].data[k] = OrigImage(k).epsg
              /\ file["affine"].data[k] = OrigImage(k).affine

\* the values of band b (of the asked bands) of all items on the canvas, item by item
CanvasBandValues(b) ==
    Flatten([k \in 1..NumImages |-> Flatten(CanvasImage(k).data[b])])

\* the step that creates /img_means in the destination of the running conversion
StatisticsStep ==
    /\ conv.pc = "store"
    /\ "img_means" \notin DOMAIN h5[conv.dst].ds
    /\ "img_means" \in DOMAIN h5'[conv.dst].ds

\* C21: the statistics of convert_img_to_h5 are taken only when no store task is
\* left and every one of the N rows of /img holds its item; the means (and, with
\* them, the standard deviations) written are those over all N rows.
C21_StatisticsAfterAllRows ==
    [][StatisticsStep =>
          /\ conv.todo = {}
          /\ \A k \in 1..NumImages :
                h5[conv.dst].ds["img"].data[k] = CanvasImage(k).data
          /\ Len(h5'[conv.dst].ds["img_means"].data) = Len(AskedBands)
          /\ \A b \in 1..Len(AskedBands) :
                /\ h5'[conv.dst].ds["img_means"].data[b]
                      = [num |-> SumSeq(CanvasBandValues(b)),
                         den |-> NumImages * CanvasHeight * CanvasWidth]
                /\ "img_stds" \in DOMAIN h5'[conv.dst].ds
                      => h5'[conv.dst].ds["img_stds"].data[b]
                           = [std_of |-> CanvasBandValues(b)]]_vars

\* a completed conversion of two items with different pixels: the statistics are
\* in the store and are not those of the first row alone
C21_Witness ==
    /\ conv.pc = "done"
    /\ NumImages = 2
    /\ {"img_means", "img_stds"} \subseteq DOMAIN h5[conv.dst].ds
    /\ h5[conv.dst].ds["img"].data[1] # h5[conv.dst].ds["img"].data[2]
    /\ h5[conv.dst].ds["img_means"].data
          # means(<<h5[conv.dst].ds["img"].data[1]>>)

\* C22: after a completed tiling the source store is what it was before the call,
\* every value of /img_means of the tiled store equals the value of the source
\* store (the stored integer m equals the mean num/den), and the pixels of /img
\* and /lbl, read as 16-bit patterns, are the source pixels of their windows.  (A
\* standard deviation is not comparable in integers and is left out: the statement
\* checked is a consequence of the claim.)
C22_OnlyShapeChanges ==
    tile.pc = "done" =>
        /\ h5[tile.src] = Opened(PackedStore(tree, NoBands))
        /\ Len(TileDst["img_means"].data) = Len(TileSrc["img_means"].data)
        /\ Len(TileDst["img_stds"].data) = Len(TileSrc["img_stds"].data)
        /\ \A j \in 1..NumItems, i \in 0..(NWindows - 1) :
              /\ Cast3(TileDst["img"].data[TileRow(j, i) + 1], ToUint16)
                    = ExpectedWindow(TileSrc["img"].data[j], i)
              /\ Cast3(TileDst["lbl"].data[TileRow(j, i) + 1], ToUint16)
                    = ExpectedWindow(<<TileSrc["lbl"].data[j]>>, i)
        /\ \A b \in 1..Len(TileSrc["img_means"].data) :
              TileDst["img_means"].data[b] * TileSrc["img_means"].data[b].den
                 = TileSrc["img_means"].data[b].num

====
